---- MODULE Spec2Model ----
(***************************************************************************)
(* Model of spark_history_mcp/models/mcp_types.py: JobSummary.parse_datetime*)
(* and JobSummary.from_job_data.                                           *)
(*                                                                         *)
(* Python values are records [type, n, s, tzinfo, special]:                *)
(*   NoneType                                                              *)
(*   int, bool   n is the integer (True = 1); special = "huge" stands for  *)
(*               an integer too large to be divided into a float           *)
(*   float       n is the value in millionths (fixed point, 1.5 is         *)
(*               1500000); special is "inf", "nan" or "huge" (finite but   *)
(*               beyond the range datetime.fromtimestamp accepts)          *)
(*   str, bytes  s is the text as a sequence of chunks                     *)
(*   datetime    n is microseconds since 1970-01-01T00:00:00 on the        *)
(*               datetime's own clock; tzinfo is "naive" or "utc"          *)
(* Each call is one step: pc goes from "call" to "returned" or "raised".   *)
(***************************************************************************)
EXTENDS Integers, Sequences, FiniteSets

VARIABLES pc, value, parsed, job_data, stages, summary, exc

vars == <<pc, value, parsed, job_data, stages, summary, exc>>

\* ---------------------------------------------------------------- bounds
MaxMs == 1
MaxStrLen == 3
MaxId == 2
MaxLen == 2
MaxStages == 2

\* ---------------------------------------------------------------- values
PyVal(t, n, s, tz, sp) == [type |-> t, n |-> n, s |-> s, tzinfo |-> tz, special |-> sp]

None == PyVal("NoneType", 0, <<>>, "", "")

PyInt(n) == PyVal("int", n, <<>>, "", "")

PyBool(n) == PyVal("bool", n, <<>>, "", "")

PyFloat(n) == PyVal("float", n, <<>>, "", "")

PyStr(s) == PyVal("str", 0, s, "", "")

PyBytes(s) == PyVal("bytes", 0, s, "", "")

Datetime(n, tz) == PyVal("datetime", n, <<>>, tz, "")

Micro == 1000 * 1000

\* The date texts the model's strings are built from, "%Y-%m-%dT%H:%M:%S.%f"
\* without an offset, and the microseconds since the epoch each denotes.
DateChunks == {"1970-01-01T00:00:00.000000", "1970-01-01T00:00:00.001000"}

DateMicros(chunk) == IF chunk = "1970-01-01T00:00:00.000000" THEN 0 ELSE 1000

Chunks == DateChunks \cup {"GMT", "+0000", "x"}

SeqsUpTo(S, k) == UNION {[1..m -> S] : m \in 0..k}

\* A returned value, or the exception that left the function.
Return(v) == [exc |-> "", value |-> v]

Raise(e) == [exc |-> e, value |-> None]

\* ------------------------------------------------------- parse_datetime
\* isinstance(value, (int, float)): bool is a subclass of int.
IsNumeric(v) == v.type \in {"int", "bool", "float"}

\* value / 1000: true division, the result is a float.
TrueDiv1000(v) ==
    IF v.type = "float"
    THEN IF v.special = "" THEN Return(PyFloat(v.n \div 1000))
         ELSE Return(v)
    ELSE IF v.special = "huge"
         THEN Raise("OverflowError")
         ELSE Return(PyFloat((v.n * Micro) \div 1000))

\* datetime.fromtimestamp(t): the naive local time t seconds after the epoch
\* (the local zone is taken to be at offset zero); a value out of range raises.
FromTimestamp(t) ==
    CASE t.special = "" -> Return(Datetime(t.n, "naive"))
      [] t.special = "nan" -> Raise("ValueError")
      [] OTHER -> Raise("OverflowError")

\* value.endswith("GMT")
EndsWithGMT(s) == Len(s) > 0 /\ s[Len(s)] = "GMT"

\* value.replace("GMT", "+0000"): every occurrence is replaced.
ReplaceGMT(s) == [i \in 1..Len(s) |-> IF s[i] = "GMT" THEN "+0000" ELSE s[i]]

\* datetime.strptime(dt_str, "%Y-%m-%dT%H:%M:%S.%f%z")
Strptime(s) ==
    IF Len(s) = 2 /\ s[1] \in DateChunks /\ s[2] = "+0000"
    THEN Return(Datetime(DateMicros(s[1]), "utc"))
    ELSE Raise("ValueError")

\* Fault: after a failed parse the substituted string is returned.
TryStrptimeSubstituted(v) ==
    LET dt_str == ReplaceGMT(v.s)
        r == Strptime(dt_str)
    IN  IF r.exc = "ValueError" THEN Return(PyStr(dt_str)) ELSE r

TryStrptime(v) ==
    LET dt_str == ReplaceGMT(v.s)
        r == Strptime(dt_str)
    IN  IF r.exc = "ValueError" THEN Return(v) ELSE r

parse_datetime(v) ==
    IF v = None THEN Return(None)
    ELSE IF IsNumeric(v)
    THEN LET q == TrueDiv1000(v)
         IN  IF q.exc # "" THEN q ELSE FromTimestamp(q.value)
    ELSE IF v.type = "str" /\ EndsWithGMT(v.s)
    THEN TryStrptime(v)
    ELSE Return(v)

\* ------------------------------------------------------------ inputs
Numbers ==
    {PyInt(n) : n \in -1..MaxMs} \cup {PyVal("int", 0, <<>>, "", "huge")}
    \cup {PyBool(n) : n \in 0..1}
    \cup {PyFloat(n * Micro) : n \in 0..MaxMs}
    \cup {PyVal("float", 0, <<>>, "", sp) : sp \in {"inf", "nan", "huge"}}

Strings == {PyStr(s) : s \in SeqsUpTo(Chunks, MaxStrLen)}

OtherValues ==
    {PyBytes(<<"x", "GMT">>)}
    \cup {Datetime(n * 1000, tz) : n \in 0..MaxMs, tz \in {"naive", "utc"}}

Values == {None} \cup Numbers \cup Strings \cup OtherValues

\* -------------------------------------------------------- from_job_data
\* Optional[List[...]]: None, or a list.
NoList == [is_none |-> TRUE, items |-> <<>>]

List(items) == [is_none |-> FALSE, items |-> items]

StageData(stage_id, status) == [stage_id |-> stage_id, status |-> status]

JobData(submission_time, completion_time, stage_ids) ==
    [job_id |-> 7, name |-> "job", description |-> None, status |-> "SUCCEEDED",
     submission_time |-> submission_time, completion_time |-> completion_time,
     stage_ids |-> stage_ids]

\* Truth value of a Python object: None is false, a datetime is always true,
\* a number is true unless zero, a text unless empty.
Truthy(v) ==
    CASE v.type = "NoneType" -> FALSE
      [] v.type = "datetime" -> TRUE
      [] v.type \in {"str", "bytes"} -> Len(v.s) > 0
      [] OTHER -> v.n # 0 \/ v.special # ""

\* Truth value of an Optional[List]: None and the empty list are false.
TruthyList(l) == ~l.is_none /\ Len(l.items) > 0

\* Fault: a negative duration is clamped to zero.
TotalSecondsClamped(completion_time, submission_time) ==
    IF completion_time.tzinfo # submission_time.tzinfo
    THEN Raise("TypeError: can't subtract offset-naive and offset-aware datetimes")
    ELSE IF completion_time.n < submission_time.n THEN Return(PyFloat(0))
    ELSE Return(PyFloat(completion_time.n - submission_time.n))

\* (completion_time - submission_time).total_seconds(): a naive and an
\* aware datetime cannot be subtracted.
TotalSeconds(completion_time, submission_time) ==
    IF completion_time.tzinfo # submission_time.tzinfo
    THEN Raise("TypeError: can't subtract offset-naive and offset-aware datetimes")
    ELSE Return(PyFloat(completion_time.n - submission_time.n))

Duration(jd) ==
    IF Truthy(jd.completion_time) /\ Truthy(jd.submission_time)
    THEN TotalSeconds(jd.completion_time, jd.submission_time)
    ELSE Return(None)

\* One entry of the dict comprehension: a later key replaces an earlier one.
DictSet(m, k, v) == [x \in DOMAIN m \cup {k} |-> IF x = k THEN v ELSE m[x]]

EmptyDict == [x \in {} |-> ""]

RECURSIVE StageStatusMapFrom(_, _, _)
StageStatusMapFrom(items, i, m) ==
    IF i > Len(items) THEN m
    ELSE StageStatusMapFrom(items, i + 1, DictSet(m, items[i].stage_id, items[i].status))

\* Fault: the first record of an identifier wins, not the last.
StageStatusMapFirstWins(items) ==
    [id \in {items[i].stage_id : i \in DOMAIN items} |->
       items[CHOOSE i \in DOMAIN items :
                /\ items[i].stage_id = id
                /\ \A j \in DOMAIN items : items[j].stage_id = id => i <= j].status]

\* {stage.stage_id: stage.status for stage in stages}
StageStatusMap(items) == StageStatusMapFrom(items, 1, EmptyDict)

\* Fault: a missing identifier is looked up as PENDING.
DictGetPending(m, k, default) == IF k \in DOMAIN m THEN m[k] ELSE "PENDING"

\* stage_status_map.get(stage_id, "UNKNOWN")
DictGet(m, k, default) == IF k \in DOMAIN m THEN m[k] ELSE default

EmptyBuckets ==
    [succeeded_stage_ids |-> <<>>, failed_stage_ids |-> <<>>, active_stage_ids |-> <<>>,
     pending_stage_ids |-> <<>>, skipped_stage_ids |-> <<>>]

\* Fault: a failed stage is also appended to the succeeded bucket.
AppendStageTwice(b, stage_id, stage_status) ==
    CASE stage_status = "COMPLETE" ->
           [b EXCEPT !.succeeded_stage_ids = Append(@, stage_id)]
      [] stage_status = "FAILED" ->
           [b EXCEPT !.failed_stage_ids = Append(@, stage_id),
                     !.succeeded_stage_ids = Append(@, stage_id)]
      [] stage_status = "ACTIVE" ->
           [b EXCEPT !.active_stage_ids = Append(@, stage_id)]
      [] stage_status = "PENDING" ->
           [b EXCEPT !.pending_stage_ids = Append(@, stage_id)]
      [] stage_status = "SKIPPED" ->
           [b EXCEPT !.skipped_stage_ids = Append(@, stage_id)]
      [] OTHER -> b

\* Fault: identifiers are inserted at the front of their bucket.
AppendStageFront(b, stage_id, stage_status) ==
    CASE stage_status = "COMPLETE" ->
           [b EXCEPT !.succeeded_stage_ids = <<stage_id>> \o @]
      [] stage_status = "FAILED" ->
           [b EXCEPT !.failed_stage_ids = <<stage_id>> \o @]
      [] stage_status = "ACTIVE" ->
           [b EXCEPT !.active_stage_ids = <<stage_id>> \o @]
      [] stage_status = "PENDING" ->
           [b EXCEPT !.pending_stage_ids = <<stage_id>> \o @]
      [] stage_status = "SKIPPED" ->
           [b EXCEPT !.skipped_stage_ids = <<stage_id>> \o @]
      [] OTHER -> b

\* Fault: the PENDING and SKIPPED buckets are swapped.
AppendStageSwapped(b, stage_id, stage_status) ==
    CASE stage_status = "COMPLETE" ->
           [b EXCEPT !.succeeded_stage_ids = Append(@, stage_id)]
      [] stage_status = "FAILED" ->
           [b EXCEPT !.failed_stage_ids = Append(@, stage_id)]
      [] stage_status = "ACTIVE" ->
           [b EXCEPT !.active_stage_ids = Append(@, stage_id)]
      [] stage_status = "PENDING" ->
           [b EXCEPT !.skipped_stage_ids = Append(@, stage_id)]
      [] stage_status = "SKIPPED" ->
           [b EXCEPT !.pending_stage_ids = Append(@, stage_id)]
      [] OTHER -> b

\* The if/elif chain of the loop body.
AppendStage(b, stage_id, stage_status) ==
    CASE stage_status = "COMPLETE" ->
           [b EXCEPT !.succeeded_stage_ids = Append(@, stage_id)]
      [] stage_status = "FAILED" ->
           [b EXCEPT !.failed_stage_ids = Append(@, stage_id)]
      [] stage_status = "ACTIVE" ->
           [b EXCEPT !.active_stage_ids = Append(@, stage_id)]
      [] stage_status = "PENDING" ->
           [b EXCEPT !.pending_stage_ids = Append(@, stage_id)]
      [] stage_status = "SKIPPED" ->
           [b EXCEPT !.skipped_stage_ids = Append(@, stage_id)]
      [] OTHER -> b

RECURSIVE GroupFrom(_, _, _, _)
GroupFrom(ids, m, i, b) ==
    IF i > Len(ids) THEN b
    ELSE GroupFrom(ids, m, i + 1, AppendStage(b, ids[i], DictGet(m, ids[i], "UNKNOWN")))

\* Fault: "or" in place of "and".
HasStageDataEither(jd, st) == TruthyList(st) \/ TruthyList(jd.stage_ids)

\* if stages and job_data.stage_ids:
HasStageData(jd, st) == TruthyList(st) /\ TruthyList(jd.stage_ids)

\* Lines 59-74. Iterating over None raises TypeError.
GroupStages(jd, st) ==
    IF HasStageData(jd, st)
    THEN IF st.is_none \/ jd.stage_ids.is_none
         THEN [exc |-> "TypeError: 'NoneType' object is not iterable", buckets |-> EmptyBuckets]
         ELSE [exc |-> "",
               buckets |-> GroupFrom(jd.stage_ids.items, StageStatusMap(st.items), 1, EmptyBuckets)]
    ELSE [exc |-> "", buckets |-> EmptyBuckets]

JobSummary(jd, duration, b) ==
    [job_id |-> jd.job_id, name |-> jd.name, description |-> jd.description,
     status |-> jd.status, submission_time |-> jd.submission_time,
     completion_time |-> jd.completion_time, duration_seconds |-> duration,
     succeeded_stage_ids |-> b.succeeded_stage_ids,
     failed_stage_ids |-> b.failed_stage_ids,
     active_stage_ids |-> b.active_stage_ids,
     pending_stage_ids |-> b.pending_stage_ids,
     skipped_stage_ids |-> b.skipped_stage_ids]

NoJob == JobData(None, None, NoList)

NoSummary == JobSummary(NoJob, None, EmptyBuckets)

from_job_data(jd, st) ==
    LET d == Duration(jd)
        g == GroupStages(jd, st)
    IN  IF d.exc # "" THEN [exc |-> d.exc, summary |-> NoSummary]
        ELSE IF g.exc # "" THEN [exc |-> g.exc, summary |-> NoSummary]
        ELSE [exc |-> "", summary |-> JobSummary(jd, d.value, g.buckets)]

\* ------------------------------------------------------------ inputs
\* The canonical timestamps: what parse_datetime yields from a number or a
\* string, for the inputs it converts.
CanonicalTimes ==
    {r.value : r \in {q \in {parse_datetime(v) : v \in Numbers \cup Strings} :
                        q.exc = "" /\ q.value.type = "datetime"}}

Times == {None} \cup CanonicalTimes

Statuses == {"COMPLETE", "FAILED", "ACTIVE", "PENDING", "SKIPPED", "RUNNING"}

StageIds == 1..MaxId

StageRecords == {StageData(id, st) : id \in StageIds, st \in Statuses}

StageIdLists == {NoList} \cup {List(s) : s \in SeqsUpTo(StageIds, MaxLen)}

StageLists == {NoList} \cup {List(s) : s \in SeqsUpTo(StageRecords, MaxStages)}

\* ------------------------------------------------------------ the calls
InitIdle ==
    /\ pc = "call"
    /\ parsed = None
    /\ summary = NoSummary
    /\ exc = ""

\* A call of parse_datetime on any value.
InitParse ==
    /\ InitIdle
    /\ value \in Values
    /\ job_data = NoJob
    /\ stages = NoList

\* A call of from_job_data: every pair of timestamps with stage data absent
\* or of one stage, and every stage-id list and stage list with one pair of
\* timestamps.
InitTimes ==
    /\ \E sub \in Times, comp \in Times, ids \in {NoList, List(<<1>>)} :
          job_data = JobData(sub, comp, ids)
    /\ stages \in {NoList, List(<<StageData(1, "COMPLETE")>>)}

InitStages ==
    /\ \E ids \in StageIdLists :
          job_data = JobData(Datetime(0, "utc"), Datetime(1000, "utc"), ids)
    /\ stages \in StageLists

Init ==
    /\ InitIdle
    /\ value = None
    /\ InitTimes \/ InitStages

ParseDatetime ==
    /\ pc = "call"
    /\ LET r == parse_datetime(value)
       IN  /\ pc' = IF r.exc = "" THEN "returned" ELSE "raised"
           /\ parsed' = r.value
           /\ exc' = r.exc
    /\ UNCHANGED <<value, job_data, stages, summary>>

FromJobData ==
    /\ pc = "call"
    /\ LET r == from_job_data(job_data, stages)
       IN  /\ pc' = IF r.exc = "" THEN "returned" ELSE "raised"
           /\ summary' = r.summary
           /\ exc' = r.exc
    /\ UNCHANGED <<value, parsed, job_data, stages>>

NextParse == ParseDatetime

Next == FromJobData

SpecParse == InitParse /\ [][NextParse]_vars

Spec == Init /\ [][Next]_vars

\* ------------------------------------------------------------ properties
Recognized == {"COMPLETE", "FAILED", "ACTIVE", "PENDING", "SKIPPED"}

Elems(q) == {q[i] : i \in DOMAIN q}

Count(q, x) == Cardinality({i \in DOMAIN q : q[i] = x})

\* job.stage_ids and stages as sequences (an absent list has no entries).
Ids == job_data.stage_ids.items

Records == stages.items

Absent(l) == l.is_none \/ l.items = <<>>

\* The five buckets of the returned summary, in the order succeeded, failed,
\* active, pending, skipped.
Buckets ==
    <<summary.succeeded_stage_ids, summary.failed_stage_ids, summary.active_stage_ids,
      summary.pending_stage_ids, summary.skipped_stage_ids>>

BucketOf(status) ==
    CASE status = "COMPLETE" -> summary.succeeded_stage_ids
      [] status = "FAILED" -> summary.failed_stage_ids
      [] status = "ACTIVE" -> summary.active_stage_ids
      [] status = "PENDING" -> summary.pending_stage_ids
      [] status = "SKIPPED" -> summary.skipped_stage_ids

Classified == UNION {Elems(Buckets[k]) : k \in 1..5}

CountInBuckets(id) ==
    Count(Buckets[1], id) + Count(Buckets[2], id) + Count(Buckets[3], id)
    + Count(Buckets[4], id) + Count(Buckets[5], id)

TotalClassified ==
    Len(Buckets[1]) + Len(Buckets[2]) + Len(Buckets[3]) + Len(Buckets[4]) + Len(Buckets[5])

AllBucketsEmpty == \A k \in 1..5 : Buckets[k] = <<>>

HasRecord(id) == \E i \in DOMAIN Records : Records[i].stage_id = id

HasRecognizedRecord(id) ==
    \E i \in DOMAIN Records : Records[i].stage_id = id /\ Records[i].status \in Recognized

\* The status of the last record of stages that carries the identifier.
LastStatus(id) ==
    IF HasRecord(id)
    THEN LET last == CHOOSE i \in DOMAIN Records :
                        /\ Records[i].stage_id = id
                        /\ \A j \in DOMAIN Records : Records[j].stage_id = id => j <= i
         IN  Records[last].status
    ELSE "UNKNOWN"

RECURSIVE IsSubsequence(_, _)
IsSubsequence(a, b) ==
    IF a = <<>> THEN TRUE
    ELSE IF b = <<>> THEN FALSE
    ELSE IF Head(a) = Head(b) THEN IsSubsequence(Tail(a), Tail(b))
    ELSE IsSubsequence(a, Tail(b))

SubtractionError == "TypeError: can't subtract offset-naive and offset-aware datetimes"

\* C1: the five buckets are pairwise disjoint; every identifier occurs in the
\* buckets together at most as often as in job.stage_ids; and the buckets hold
\* exactly the entries of job.stage_ids only when every identifier of
\* stage_ids has a record with a recognized status (and is looked up as one).
BucketsDisjointSubMultiset ==
    pc = "returned" =>
      /\ \A k \in 1..5 : \A l \in 1..5 :
            k # l => Elems(Buckets[k]) \cap Elems(Buckets[l]) = {}
      /\ \A id \in Classified \cup Elems(Ids) : CountInBuckets(id) <= Count(Ids, id)
      /\ (\A id \in Classified \cup Elems(Ids) : CountInBuckets(id) = Count(Ids, id))
            => \A id \in Elems(Ids) :
                  HasRecognizedRecord(id) /\ LastStatus(id) \in Recognized

\* C1 witness: an identifier repeated in stage_ids is classified twice.
RepeatedIdClassified ==
    /\ pc = "returned"
    /\ \E id \in Elems(Ids) : Count(Ids, id) >= 2 /\ CountInBuckets(id) >= 2

\* C2: each bucket is a subsequence of job.stage_ids.
BucketsPreserveOrder ==
    pc = "returned" => \A k \in 1..5 : IsSubsequence(Buckets[k], Ids)

\* C2 witness: one bucket holds two different identifiers.
TwoIdsInOneBucket ==
    /\ pc = "returned"
    /\ \E k \in 1..5 : Cardinality(Elems(Buckets[k])) >= 2

\* C3: duration_seconds is present exactly when both timestamps are, and is
\* then completion_time minus submission_time in seconds, unclamped.
DurationIsDifference ==
    pc = "returned" =>
      /\ summary.duration_seconds # None
            <=> (job_data.submission_time # None /\ job_data.completion_time # None)
      /\ summary.duration_seconds # None =>
            /\ summary.duration_seconds.type = "float"
            /\ summary.duration_seconds.n
                  = job_data.completion_time.n - job_data.submission_time.n

\* C3 witness: completion precedes submission and the duration is negative.
NegativeDuration ==
    /\ pc = "returned"
    /\ job_data.completion_time # None /\ job_data.submission_time # None
    /\ job_data.completion_time.n < job_data.submission_time.n
    /\ summary.duration_seconds.n < 0

\* C4: with stages absent or empty, or stage_ids absent or empty, the call
\* does not fail on the missing list and all five buckets are empty.
NoStageDataNoBuckets ==
    (pc # "call" /\ (Absent(stages) \/ Absent(job_data.stage_ids))) =>
      /\ AllBucketsEmpty
      /\ pc = "raised" => exc = SubtractionError

\* C4 witness: stages is None while stage_ids names stages.
StagesNoneIdsGiven ==
    /\ pc = "returned"
    /\ stages.is_none
    /\ Len(Ids) > 0

\* C5 as stated: when every identifier of stage_ids has some record with a
\* recognized status, the buckets hold exactly the identifiers of stage_ids,
\* each in the bucket of the status of such a record.
AllRecognizedAllClassified ==
    (pc = "returned" /\ \A id \in Elems(Ids) : HasRecognizedRecord(id)) =>
      /\ Classified = Elems(Ids)
      /\ \A id \in Elems(Ids) :
            \E i \in DOMAIN Records :
               /\ Records[i].stage_id = id
               /\ Records[i].status \in Recognized
               /\ id \in Elems(BucketOf(Records[i].status))

\* C5 amended: when for every identifier of stage_ids the last record of
\* stages carrying it has a recognized status, the buckets hold exactly the
\* identifiers of stage_ids, each in the bucket of that last record's status.
AllLastRecognizedAllClassified ==
    (pc = "returned" /\ \A id \in Elems(Ids) : LastStatus(id) \in Recognized) =>
      /\ Classified = Elems(Ids)
      /\ \A id \in Elems(Ids) : id \in Elems(BucketOf(LastStatus(id)))

\* C5 witness: two identifiers with recognized, different statuses.
TwoRecognizedStatuses ==
    /\ pc = "returned"
    /\ \A id \in Elems(Ids) : LastStatus(id) \in Recognized
    /\ \E a \in Elems(Ids) : \E b \in Elems(Ids) : LastStatus(a) # LastStatus(b)

\* C6: an identifier without a record, or whose looked-up record has an
\* unrecognized status, is in no bucket and raises nothing; the buckets hold as
\* many entries as stage_ids has entries with a recognized looked-up status.
UnrecognizedDropped ==
    /\ pc = "returned" =>
          /\ \A id \in Elems(Ids) : LastStatus(id) \notin Recognized => id \notin Classified
          /\ TotalClassified
                = Cardinality({i \in DOMAIN Ids :
                                 LastStatus(Ids[i]) \in Recognized})
    /\ pc = "raised" => exc = SubtractionError

\* C6 witness: one identifier has no record, another an unrecognized status,
\* and a summary is returned.
UnknownAndUnrecognized ==
    /\ pc = "returned"
    /\ \E id \in Elems(Ids) : ~HasRecord(id)
    /\ \E id \in Elems(Ids) : HasRecord(id) /\ LastStatus(id) \notin Recognized

\* C7: parse_datetime never raises, whatever its input.
ParseNeverRaises == pc # "call" => exc = ""

\* A string of the fixed pattern with the GMT suffix.
GmtPatterned(v) ==
    /\ v.type = "str"
    /\ Len(v.s) = 2
    /\ v.s[1] \in DateChunks
    /\ v.s[2] = "GMT"

\* C8: an input that is neither a number nor a GMT-suffixed string of the
\* fixed pattern is returned as it was.
PassthroughUnchanged ==
    (pc # "call" /\ value.type \notin {"int", "bool", "float"} /\ ~GmtPatterned(value)) =>
      /\ pc = "returned"
      /\ parsed = value

\* C8 witness: a string that ends in GMT and fails the parse was returned.
GmtStringFailedParse ==
    /\ pc = "returned"
    /\ value.type = "str"
    /\ Len(value.s) > 0
    /\ value.s[Len(value.s)] = "GMT"
    /\ ~GmtPatterned(value)

\* C9: from_job_data returns a summary for every job whose timestamps are
\* absent or canonical, and every stages argument.
FromJobDataNeverRaises == pc # "call" => pc = "returned"

\* C10: every occurrence in stage_ids of an identifier that stages mentions
\* goes to the bucket of the status of the LAST record carrying it, and to no
\* other bucket.
LastRecordDecides ==
    (pc = "returned" /\ ~Absent(stages)) =>
      \A id \in Elems(Ids) :
         HasRecord(id) =>
            \A s \in Recognized :
               Count(BucketOf(s), id) = IF LastStatus(id) = s THEN Count(Ids, id) ELSE 0

\* C10 witness: two records of one identifier differ in status, the earlier
\* one recognized, and the identifier is in stage_ids.
TwoAttemptsDiffer ==
    /\ pc = "returned"
    /\ \E i \in DOMAIN Records : \E j \in DOMAIN Records :
          /\ i < j
          /\ Records[i].stage_id = Records[j].stage_id
          /\ Records[i].status # Records[j].status
          /\ Records[i].status \in Recognized
          /\ Records[i].stage_id \in Elems(Ids)

====
